---- MODULE Spec2Model ----
(***************************************************************************)
(* Model of cpu/nrf5x_common/periph/timer.c: the peripheral timer driver   *)
(* of the nRF5x family.  The state is the driver's context memory          *)
(* (ctx[TIMER_NUMOF]), the registers of each NRF_TIMER peripheral the      *)
(* driver touches, and the NVIC enable bit of each timer interrupt line.   *)
(* Every driver function is an operator from machine state to machine      *)
(* state, composed of one operator per C statement; every action of the    *)
(* specification applies one whole function.                               *)
(***************************************************************************)
EXTENDS Integers, Sequences, FiniteSets, TLC

(***************************************************************************)
(* Configuration and constants                                             *)
(***************************************************************************)

\* the timer is clocked at 16MHz
F_TIMER == 16000000

\* number of timer instances of the board (size of ctx[] and timer_config[])
TIMER_NUMOF == 1

\* flags of timer_set_periodic (periph/timer.h)
TIM_FLAG_RESET_ON_SET == 1
TIM_FLAG_RESET_ON_MATCH == 2
TIM_FLAG_SET_STOPPED == 4

\* number of prescaler values the frequency search of timer_init tries
PRESCALER_STEPS == 10

\* value of the PRESCALER register after a peripheral reset
PRESCALER_RESET == 4

\* width of the uint8_t bit sets ctx[].flags and ctx[].is_periodic
UINT8_MOD == 256

\* largest counter / compare value of the model; the counter wraps to 0
\* after MaxValue, as the hardware counter wraps at its bit width
MaxValue == 1

Timers == 0 .. (TIMER_NUMOF - 1)

\* the board's static timer configuration: user channels per instance and
\* the bit width selector written to BITMODE
timer_config == [t \in Timers |-> [channels |-> 2, bitmode |-> 3]]

\* compare/capture registers of a peripheral: the user channels plus the
\* channel timer_read captures into
NumCC(t) == timer_config[t].channels + 1

Values == 0 .. MaxValue

\* callbacks a caller may register, each with its argument
Callbacks == {"cbA", "cbB"}

ArgOf(cb) == IF cb = "cbA" THEN "argA" ELSE "argB"

\* argument values of the calls the model makes: instance TIMER_NUMOF and
\* channel indexes >= channels are the out-of-range ones
TimArgs == 0 .. TIMER_NUMOF

ChanArgs == 0 .. timer_config[0].channels

FlagArgs == 0 .. 7

FreqArgs == {F_TIMER, 1500000}

\* the user channels of an instance
Chans(t) == 0 .. (timer_config[t].channels - 1)

\* The program: the driver's context memory, the peripherals' registers and
\* the NVIC enable bits.  The last step: the value it returned, the
\* callbacks it invoked, and whether it accessed memory outside ctx[] and
\* timer_config[].  The history of the calls, which only the
\* specifications SpecArm and SpecHeld record: per channel the arming call
\* that is outstanding, per instance whether a set_periodic left it stopped
\* and timer_start has not been called since.  The call in progress, which
\* only the specification SpecStep runs statement by statement: the
\* function, the line it is at, its arguments and its register.
VARIABLES ctx, dev, nvic, ret, fired, oob, armedBy, held, call

vars == <<ctx, dev, nvic, ret, fired, oob, armedBy, held, call>>

(***************************************************************************)
(* Bit operations on the integer images of the C bit sets                  *)
(***************************************************************************)

\* 1 << n
Pow2(n) == 2 ^ n

\* x & (1 << n)
BitTest(x, n) == ((x \div Pow2(n)) % 2) = 1

\* x |= (1 << n), stored in a register of width mod
BitSet(x, n, mod) == (IF BitTest(x, n) THEN x ELSE x + Pow2(n)) % mod

\* x |= (1 << n) in a 32 bit register; n is below the register's width
RegSet(x, n) == IF BitTest(x, n) THEN x ELSE x + Pow2(n)

\* x &= ~(1 << n)
BitClr(x, n) == IF BitTest(x, n) THEN x - Pow2(n) ELSE x

\* flags & mask, for a mask of one bit
HasFlag(flags, mask) == ((flags \div mask) % 2) = 1

(***************************************************************************)
(* Machine state: m = [ctx, dev, nvic]                                     *)
(***************************************************************************)

\* static tim_ctx_t ctx[TIMER_NUMOF], zero-initialised
CtxInit == [cb |-> "NULL", arg |-> "NULL", flags |-> 0, is_periodic |-> 0]

\* registers of one NRF_TIMER peripheral after reset.  INTEN holds the
\* COMPAREn interrupt enable bits, bit n for channel n (the register's bits
\* 16 + n); running is the state the START/STOP/SHUTDOWN tasks toggle.
DevInit(t) ==
    [running |-> FALSE,
     counter |-> 0,
     BITMODE |-> 0,
     MODE |-> 0,
     PRESCALER |-> PRESCALER_RESET,
     CC |-> [k \in 0 .. (NumCC(t) - 1) |-> 0],
     EVENTS_COMPARE |-> [k \in 0 .. (NumCC(t) - 1) |-> 0],
     INTEN |-> 0,
     SHORTS |-> 0]

Machine == [ctx |-> ctx, dev |-> dev, nvic |-> nvic]

\* no call is in progress.  Of a call in progress: fn the function, line
\* the source line of the statement it executes next, loaded whether the
\* load of the read-modify-write of that line is done, tmp the register
\* it loaded into.  What happened to it: stale, its channel was idle
\* with its event flag set when it was entered and the flag has not been
\* cleared since; hit, the counter has reached the compare value it wrote
\* and the channel has not been called back since; disarmed, the other
\* channels the handler has disarmed since it was entered.
NoCall ==
    [fn |-> "none", line |-> 0, loaded |-> FALSE,
     tim |-> 0, chan |-> 0, value |-> 0, flags |-> 0, tmp |-> 0,
     stale |-> FALSE, hit |-> FALSE, disarmed |-> {}]

(***************************************************************************)
(* Statements                                                              *)
(***************************************************************************)

\* dev(tim)->TASKS_STOP = 1
TaskStop(m, tim) == [m EXCEPT !.dev[tim].running = FALSE]

\* dev(tim)->TASKS_START = 1
TaskStart(m, tim) == [m EXCEPT !.dev[tim].running = TRUE]

\* dev(tim)->TASKS_CLEAR = 1
TaskClear(m, tim) == [m EXCEPT !.dev[tim].counter = 0]

\* dev(tim)->TASKS_SHUTDOWN = 1
TaskShutdown(m, tim) == [m EXCEPT !.dev[tim].running = FALSE]

\* dev(tim)->TASKS_CAPTURE[k] = 1
TaskCapture(m, tim, k) == [m EXCEPT !.dev[tim].CC[k] = m.dev[tim].counter]

\* dev(tim)->CC[chan] = value
WriteCC(m, tim, chan, value) == [m EXCEPT !.dev[tim].CC[chan] = value]

\* dev(tim)->EVENTS_COMPARE[chan] = 0 (and the read back of the register)
ClearEvent(m, tim, chan) ==
    IF chan \in DOMAIN m.dev[tim].EVENTS_COMPARE
    THEN [m EXCEPT !.dev[tim].EVENTS_COMPARE[chan] = 0]
    ELSE m

\* dev(tim)->INTENSET = (TIMER_INTENSET_COMPARE0_Msk << chan)
IntenSet(m, tim, chan) ==
    [m EXCEPT !.dev[tim].INTEN = RegSet(m.dev[tim].INTEN, chan)]

\* dev(tim)->INTENCLR = (TIMER_INTENSET_COMPARE0_Msk << chan)
IntenClr(m, tim, chan) ==
    [m EXCEPT !.dev[tim].INTEN = BitClr(m.dev[tim].INTEN, chan)]

\* dev(tim)->SHORTS |= (1 << chan)
ShortsSet(m, tim, chan) ==
    [m EXCEPT !.dev[tim].SHORTS = RegSet(m.dev[tim].SHORTS, chan)]

\* dev(tim)->SHORTS &= ~(1 << chan)
ShortsClr(m, tim, chan) ==
    [m EXCEPT !.dev[tim].SHORTS = BitClr(m.dev[tim].SHORTS, chan)]

\* ctx[tim].flags |= (1 << chan)
FlagSet(m, tim, chan) ==
    [m EXCEPT !.ctx[tim].flags = BitSet(m.ctx[tim].flags, chan, UINT8_MOD)]

\* ctx[tim].flags &= ~(1 << chan)
FlagClr(m, tim, chan) ==
    [m EXCEPT !.ctx[tim].flags = BitClr(m.ctx[tim].flags, chan)]

\* ctx[tim].is_periodic |= (1 << chan)
PeriodicSet(m, tim, chan) ==
    [m EXCEPT !.ctx[tim].is_periodic =
                  BitSet(m.ctx[tim].is_periodic, chan, UINT8_MOD)]

\* ctx[tim].is_periodic &= ~(1 << chan)
PeriodicClr(m, tim, chan) ==
    [m EXCEPT !.ctx[tim].is_periodic = BitClr(m.ctx[tim].is_periodic, chan)]

\* the result of a function: the machine it leaves and the value it returns
Result(m, r) == [m |-> m, ret |-> r]

(***************************************************************************)
(* timer_init                                                              *)
(***************************************************************************)

\* the frequency search: for (i = 0; i < 10; i++) { if (freq == cando)
\* break; cando /= 2; } -- the value of i the loop ends with
\* a search that rounds: it takes the first prescaler whose frequency is
\* not above the requested one
RECURSIVE FreqSearchRounding(_, _, _)
FreqSearchRounding(freq, i, cando) ==
    IF i >= PRESCALER_STEPS THEN i
    ELSE IF freq >= cando THEN i
    ELSE FreqSearchRounding(freq, i + 1, cando \div 2)

RECURSIVE FreqSearch(_, _, _)
FreqSearch(freq, i, cando) ==
    IF i >= PRESCALER_STEPS THEN i
    ELSE IF freq = cando THEN i
    ELSE FreqSearch(freq, i + 1, cando \div 2)

\* save interrupt context
SaveContext(m, tim, cb, arg) ==
    [m EXCEPT !.ctx[tim].cb = cb, !.ctx[tim].arg = arg]

\* reset and configure the timer
ResetTimer(m, tim) ==
    LET s == TaskStop(m, tim)
        b == [s EXCEPT !.dev[tim].BITMODE = timer_config[tim].bitmode,
                       !.dev[tim].MODE = 0]
    IN TaskClear(b, tim)

\* reset compare state
ResetCompare(m, tim) == ClearEvent(ClearEvent(ClearEvent(m, tim, 0), tim, 1), tim, 2)

\* NVIC_EnableIRQ(timer_config[tim].irqn)
EnableIRQ(m, tim) == [m EXCEPT !.nvic[tim] = TRUE]

\* a timer_init that enables the interrupt line and starts the timer
\* before it searches the frequency
timer_init_starts_early(m, tim, freq, cb, arg) ==
    IF tim >= TIMER_NUMOF THEN Result(m, -1)
    ELSE LET r == TaskStart(EnableIRQ(ResetTimer(SaveContext(m, tim, cb, arg), tim),
                                      tim), tim)
             i == FreqSearch(freq, 0, F_TIMER)
         IN IF i = PRESCALER_STEPS THEN Result(r, -1)
            ELSE Result(ResetCompare([r EXCEPT !.dev[tim].PRESCALER = i], tim), 0)

timer_init(m, tim, freq, cb, arg) ==
    IF tim >= TIMER_NUMOF THEN Result(m, -1)
    ELSE LET r == ResetTimer(SaveContext(m, tim, cb, arg), tim)
             i == FreqSearch(freq, 0, F_TIMER)
         IN IF i = PRESCALER_STEPS THEN Result(r, -1)
            ELSE LET p == [r EXCEPT !.dev[tim].PRESCALER = i]
                 IN Result(TaskStart(EnableIRQ(ResetCompare(p, tim), tim), tim), 0)

(***************************************************************************)
(* timer_set_absolute, timer_set_periodic, timer_clear                     *)
(***************************************************************************)

timer_set_absolute(m, tim, chan, value) ==
    IF chan >= timer_config[tim].channels THEN Result(m, -1)
    ELSE LET a == WriteCC(FlagSet(m, tim, chan), tim, chan, value)
         IN Result(IntenSet(ClearEvent(a, tim, chan), tim, chan), 0)

\* a timer_set_periodic that restarts the timer whatever the flags say
timer_set_periodic_restarts(m, tim, chan, value, flags) ==
    IF chan >= timer_config[tim].channels THEN Result(m, -1)
    ELSE LET s == TaskStop(m, tim)
             a == WriteCC(PeriodicSet(FlagSet(s, tim, chan), tim, chan),
                          tim, chan, value)
             b == IF HasFlag(flags, TIM_FLAG_RESET_ON_MATCH) THEN ShortsSet(a, tim, chan) ELSE a
             c == IF HasFlag(flags, TIM_FLAG_RESET_ON_SET) THEN TaskClear(b, tim) ELSE b
             e == IntenSet(ClearEvent(c, tim, chan), tim, chan)
         IN Result(TaskStart(e, tim), 0)

timer_set_periodic(m, tim, chan, value, flags) ==
    IF chan >= timer_config[tim].channels THEN Result(m, -1)
    ELSE LET s == TaskStop(m, tim)
             a == WriteCC(PeriodicSet(FlagSet(s, tim, chan), tim, chan),
                          tim, chan, value)
             b == IF HasFlag(flags, TIM_FLAG_RESET_ON_MATCH) THEN ShortsSet(a, tim, chan) ELSE a
             c == IF HasFlag(flags, TIM_FLAG_RESET_ON_SET) THEN TaskClear(b, tim) ELSE b
             e == IntenSet(ClearEvent(c, tim, chan), tim, chan)
         IN Result(IF ~HasFlag(flags, TIM_FLAG_SET_STOPPED) THEN TaskStart(e, tim)
                   ELSE e, 0)

\* a timer_clear that leaves the interrupt source of the channel enabled
timer_clear_keeps_inten(m, tim, chan) ==
    IF chan >= timer_config[tim].channels THEN Result(m, -1)
    ELSE Result(PeriodicClr(FlagClr(ShortsClr(m, tim, chan), tim, chan), tim, chan), 0)

\* a timer_clear that leaves the periodic bit set
timer_clear_keeps_periodic(m, tim, chan) ==
    IF chan >= timer_config[tim].channels THEN Result(m, -1)
    ELSE Result(FlagClr(ShortsClr(IntenClr(m, tim, chan), tim, chan), tim, chan), 0)

timer_clear(m, tim, chan) ==
    IF chan >= timer_config[tim].channels THEN Result(m, -1)
    ELSE Result(PeriodicClr(FlagClr(ShortsClr(IntenClr(m, tim, chan), tim, chan),
                                    tim, chan), tim, chan), 0)

(***************************************************************************)
(* timer_read, timer_start, timer_stop                                     *)
(***************************************************************************)

\* a timer_read that captures into the last user channel
timer_read_user_channel(m, tim) ==
    LET c == TaskCapture(m, tim, timer_config[tim].channels - 1)
    IN Result(c, c.dev[tim].CC[timer_config[tim].channels - 1])

timer_read(m, tim) ==
    LET c == TaskCapture(m, tim, timer_config[tim].channels)
    IN Result(c, c.dev[tim].CC[timer_config[tim].channels])

timer_start(m, tim) == TaskStart(m, tim)

timer_stop(m, tim) == TaskShutdown(m, tim)

(***************************************************************************)
(* irq_handler                                                             *)
(***************************************************************************)

\* what the caller's callback does to the machine: "cbRearm" arms the
\* channel it is called for again, with timer_set_absolute and the compare
\* value the channel has; the other callbacks call nothing of the driver
CbEffect(m, cb, num, i) ==
    IF cb = "cbRearm"
    THEN timer_set_absolute(m, num, i, m.dev[num].CC[i]).m
    ELSE m

\* ctx[num].cb(ctx[num].arg, i): the callback is the caller's code; the
\* model records the call, in order, in the log of the handler invocation
InvokeCb(s, num, i) ==
    [s EXCEPT !.fired = Append(s.fired, <<s.m.ctx[num].cb, s.m.ctx[num].arg, i>>),
              !.m = CbEffect(s.m, s.m.ctx[num].cb, num, i)]

\* a loop body that disarms a one-shot channel after it has called it back
IrqChannelDisarmsAfterCb(s, num, i) ==
    IF s.m.dev[num].EVENTS_COMPARE[i] = 1
    THEN LET c == [s EXCEPT !.m = ClearEvent(s.m, num, i)]
         IN IF BitTest(c.m.ctx[num].flags, i)
            THEN LET d == InvokeCb(c, num, i)
                 IN IF ~BitTest(c.m.ctx[num].is_periodic, i)
                    THEN [d EXCEPT !.m = IntenClr(FlagClr(d.m, num, i), num, i)]
                    ELSE d
            ELSE c
    ELSE s

\* a loop body that disarms every channel it calls back, periodic or not
IrqChannelAlwaysDisarms(s, num, i) ==
    IF s.m.dev[num].EVENTS_COMPARE[i] = 1
    THEN LET c == [s EXCEPT !.m = ClearEvent(s.m, num, i)]
         IN IF BitTest(c.m.ctx[num].flags, i)
            THEN InvokeCb([c EXCEPT !.m = IntenClr(FlagClr(c.m, num, i), num, i)], num, i)
            ELSE c
    ELSE s

\* a loop body without the guard on the armed bit
IrqChannelUnguarded(s, num, i) ==
    IF s.m.dev[num].EVENTS_COMPARE[i] = 1
    THEN InvokeCb([s EXCEPT !.m = ClearEvent(s.m, num, i)], num, i)
    ELSE s

\* the body of the for loop of irq_handler for channel i
IrqChannel(s, num, i) ==
    IF s.m.dev[num].EVENTS_COMPARE[i] = 1
    THEN LET c == [s EXCEPT !.m = ClearEvent(s.m, num, i)]
         IN IF BitTest(c.m.ctx[num].flags, i)
            THEN LET d == IF ~BitTest(c.m.ctx[num].is_periodic, i)
                          THEN [c EXCEPT !.m = IntenClr(FlagClr(c.m, num, i), num, i)]
                          ELSE c
                 IN InvokeCb(d, num, i)
            ELSE c
    ELSE s

\* for (unsigned i = 0; i < timer_config[num].channels; i++)
RECURSIVE IrqLoop(_, _, _)
IrqLoop(s, num, i) ==
    IF i < timer_config[num].channels
    THEN IrqLoop(IrqChannel(s, num, i), num, i + 1)
    ELSE s

\* a handler that scans the channels from the highest index down
RECURSIVE IrqLoopDown(_, _, _)
IrqLoopDown(s, num, i) ==
    IF i >= 0
    THEN IrqLoopDown(IrqChannel(s, num, i), num, i - 1)
    ELSE s

irq_handler_downwards(m, num) ==
    IrqLoopDown([m |-> m, fired |-> <<>>], num, timer_config[num].channels - 1)

irq_handler(m, num) == IrqLoop([m |-> m, fired |-> <<>>], num, 0)

(***************************************************************************)
(* The peripheral                                                          *)
(***************************************************************************)

\* the compare registers the counter value v matches
Matched(d, v) == {k \in DOMAIN d.CC : d.CC[k] = v}

\* one increment of a running counter: it wraps after MaxValue, latches
\* the compare event of every channel whose CC it reaches, and is cleared
\* when one of these channels has its COMPAREn_CLEAR short enabled
Count(d) ==
    LET v == (d.counter + 1) % (MaxValue + 1)
        hit == Matched(d, v)
    IN [d EXCEPT !.counter = IF \E k \in hit : BitTest(d.SHORTS, k) THEN 0 ELSE v,
                 !.EVENTS_COMPARE = [k \in DOMAIN d.CC |->
                                        IF k \in hit THEN 1 ELSE d.EVENTS_COMPARE[k]]]

\* the interrupt line of instance num is raised: it is enabled in the NVIC
\* and a compare event is pending whose interrupt source is enabled
IrqPending(m, num) ==
    /\ m.nvic[num]
    /\ \E k \in DOMAIN m.dev[num].CC :
           m.dev[num].EVENTS_COMPARE[k] = 1 /\ BitTest(m.dev[num].INTEN, k)

(***************************************************************************)
(* Specification                                                           *)
(***************************************************************************)

Init ==
    /\ ctx = [t \in Timers |-> CtxInit]
    /\ dev = [t \in Timers |-> DevInit(t)]
    /\ nvic = [t \in Timers |-> FALSE]
    /\ ret = 0
    /\ fired = <<>>
    /\ oob = FALSE
    /\ armedBy = [t \in Timers |-> [c \in Chans(t) |-> "none"]]
    /\ held = [t \in Timers |-> FALSE]
    /\ call = NoCall

\* the machine becomes m; the call returned r and invoked no callback
Returns(m, r) ==
    /\ ctx' = m.ctx
    /\ dev' = m.dev
    /\ nvic' = m.nvic
    /\ ret' = r
    /\ fired' = <<>>
    /\ oob' = FALSE

Call(r) == Returns(r.m, r.ret)

\* a call with an instance index that timer_config[] and ctx[] do not
\* hold: the function reads (and, when the channel check passes on the
\* value it read, writes) outside these arrays.  The memory outside the
\* arrays is not part of the model; the call is recorded as out of bounds
\* and returns any of the values rets.
OutOfBounds(rets) ==
    /\ UNCHANGED <<ctx, dev, nvic>>
    /\ ret' \in rets
    /\ fired' = <<>>
    /\ oob' = TRUE

TimerInit(tim, freq, cb) == Call(timer_init(Machine, tim, freq, cb, ArgOf(cb)))

TimerSetAbsolute(tim, chan, value) ==
    IF tim \in Timers
    THEN Call(timer_set_absolute(Machine, tim, chan, value))
    ELSE OutOfBounds({0, -1})

TimerSetPeriodic(tim, chan, value, flags) ==
    IF tim \in Timers
    THEN Call(timer_set_periodic(Machine, tim, chan, value, flags))
    ELSE OutOfBounds({0, -1})

TimerClear(tim, chan) ==
    IF tim \in Timers
    THEN Call(timer_clear(Machine, tim, chan))
    ELSE OutOfBounds({0, -1})

TimerRead(tim) ==
    IF tim \in Timers
    THEN Call(timer_read(Machine, tim))
    ELSE OutOfBounds(Values)

TimerStart(tim) ==
    IF tim \in Timers
    THEN Returns(timer_start(Machine, tim), 0)
    ELSE OutOfBounds({0})

TimerStop(tim) ==
    IF tim \in Timers
    THEN Returns(timer_stop(Machine, tim), 0)
    ELSE OutOfBounds({0})

\* TIMER_n_ISR: the interrupt of instance num is taken
Isr(num) ==
    /\ IrqPending(Machine, num)
    /\ LET s == irq_handler(Machine, num)
       IN /\ ctx' = s.m.ctx
          /\ dev' = s.m.dev
          /\ nvic' = s.m.nvic
          /\ fired' = s.fired
    /\ ret' = 0
    /\ oob' = FALSE

\* the counter of a running timer counts
Tick(t) ==
    /\ dev[t].running
    /\ dev' = [dev EXCEPT ![t] = Count(dev[t])]
    /\ UNCHANGED <<ctx, nvic, ret, fired, oob>>

\* the arguments of the arming calls: a call with a channel index
\* >= channels returns before it reads value or flags, so one value of
\* each stands for all
ValueArgs(tim, chan) == IF chan \in Chans(tim) THEN Values ELSE {0}

FlagsFor(tim, chan) == IF chan \in Chans(tim) THEN FlagArgs ELSE {0}

DoInit == \E tim \in TimArgs, freq \in FreqArgs, cb \in Callbacks : TimerInit(tim, freq, cb)

DoSetAbsolute ==
    \E tim \in Timers, chan \in ChanArgs :
        \E value \in ValueArgs(tim, chan) : TimerSetAbsolute(tim, chan, value)

DoSetPeriodic ==
    \E tim \in Timers, chan \in ChanArgs :
        \E value \in ValueArgs(tim, chan), flags \in FlagsFor(tim, chan) :
            TimerSetPeriodic(tim, chan, value, flags)

DoClear == \E tim \in Timers, chan \in ChanArgs : TimerClear(tim, chan)

DoRead == \E tim \in Timers : TimerRead(tim)

DoStart == \E tim \in Timers : TimerStart(tim)

DoStop == \E tim \in Timers : TimerStop(tim)

DoIsr == \E num \in Timers : Isr(num)

DoTick == \E t \in Timers : Tick(t)

\* no history is recorded, and every call runs as a whole
NoHist == UNCHANGED <<armedBy, held, call>>

\* the steps of a program that passes only configured instance indexes and
\* arms, disarms, starts and stops the channels, and of the peripheral
Next ==
    \/ DoInit /\ NoHist
    \/ DoSetAbsolute /\ NoHist
    \/ DoSetPeriodic /\ NoHist
    \/ DoClear /\ NoHist
    \/ DoStart /\ NoHist
    \/ DoStop /\ NoHist
    \/ DoIsr /\ NoHist
    \/ DoTick /\ NoHist

Spec == Init /\ [][Next]_vars

(***************************************************************************)
(* The calls with an instance index out of range, and timer_read           *)
(***************************************************************************)

DoBadInstance ==
    \E tim \in TimArgs \ Timers :
        \/ TimerSetAbsolute(tim, 0, 0)
        \/ TimerSetPeriodic(tim, 0, 0, 0)
        \/ TimerClear(tim, 0)
        \/ TimerRead(tim)
        \/ TimerStart(tim)
        \/ TimerStop(tim)

\* the steps of a program that passes any instance index
NextArgs ==
    \/ DoInit /\ NoHist
    \/ DoSetAbsolute /\ NoHist
    \/ DoSetPeriodic /\ NoHist
    \/ DoClear /\ NoHist
    \/ DoRead /\ NoHist
    \/ DoStart /\ NoHist
    \/ DoStop /\ NoHist
    \/ DoIsr /\ NoHist
    \/ DoTick /\ NoHist
    \/ DoBadInstance /\ NoHist

SpecArgs == Init /\ [][NextArgs]_vars

(***************************************************************************)
(* The frequencies of timer_init                                           *)
(***************************************************************************)

\* the largest exponent e of the requested frequencies F_TIMER / 2^e
MaxExp == 10

FreqInputs ==
    {F_TIMER \div Pow2(e) : e \in 0 .. MaxExp}
        \cup {0, 1, 15624, 999999, 1500000, F_TIMER + 1, 2 * F_TIMER}

DoInitFreq == \E freq \in FreqInputs, cb \in Callbacks : TimerInit(0, freq, cb)

\* the steps of a program that initialises an instance with any of the
\* frequencies, reads, starts and stops it
NextFreq ==
    \/ DoInitFreq /\ NoHist
    \/ DoRead /\ NoHist
    \/ DoStart /\ NoHist
    \/ DoStop /\ NoHist
    \/ DoTick /\ NoHist

SpecFreq == Init /\ [][NextFreq]_vars

(***************************************************************************)
(* The history of the arming calls                                         *)
(***************************************************************************)

\* the arming call outstanding on (tim, chan) becomes kind
Arm(tim, chan, kind) ==
    armedBy' = IF chan \in Chans(tim)
               THEN [armedBy EXCEPT ![tim][chan] = kind]
               ELSE armedBy

\* a match event delivered to the handler consumes an outstanding
\* timer_set_absolute
Consume(num) ==
    armedBy' = [armedBy EXCEPT ![num] =
                   [c \in Chans(num) |->
                       IF dev[num].EVENTS_COMPARE[c] = 1 /\ armedBy[num][c] = "absolute"
                       THEN "none"
                       ELSE armedBy[num][c]]]

ArmSetAbsolute ==
    \E tim \in Timers, chan \in ChanArgs :
        \E value \in ValueArgs(tim, chan) :
            TimerSetAbsolute(tim, chan, value) /\ Arm(tim, chan, "absolute")

ArmSetPeriodic ==
    \E tim \in Timers, chan \in ChanArgs :
        \E value \in ValueArgs(tim, chan), flags \in FlagsFor(tim, chan) :
            TimerSetPeriodic(tim, chan, value, flags) /\ Arm(tim, chan, "periodic")

ArmClear ==
    \E tim \in Timers, chan \in ChanArgs :
        TimerClear(tim, chan) /\ Arm(tim, chan, "none")

ArmIsr == \E num \in Timers : Isr(num) /\ Consume(num)

\* the steps of Next, with the arming calls recorded
NextArm ==
    \/ DoInit /\ NoHist
    \/ ArmSetAbsolute /\ UNCHANGED <<held, call>>
    \/ ArmSetPeriodic /\ UNCHANGED <<held, call>>
    \/ ArmClear /\ UNCHANGED <<held, call>>
    \/ DoStart /\ NoHist
    \/ DoStop /\ NoHist
    \/ ArmIsr /\ UNCHANGED <<held, call>>
    \/ DoTick /\ NoHist

SpecArm == Init /\ [][NextArm]_vars

(***************************************************************************)
(* The history of timer_set_periodic with TIM_FLAG_SET_STOPPED             *)
(***************************************************************************)

\* a timer_set_periodic with TIM_FLAG_SET_STOPPED holds the instance
HeldSetPeriodic ==
    \E tim \in Timers, chan \in ChanArgs :
        \E value \in ValueArgs(tim, chan), flags \in FlagsFor(tim, chan) :
            /\ TimerSetPeriodic(tim, chan, value, flags)
            /\ held' = IF chan \in Chans(tim) /\ HasFlag(flags, TIM_FLAG_SET_STOPPED)
                       THEN [held EXCEPT ![tim] = TRUE]
                       ELSE held

\* timer_start releases it
HeldStart ==
    \E tim \in Timers :
        TimerStart(tim) /\ held' = [held EXCEPT ![tim] = FALSE]

\* timer_init; which callback it registers makes no difference to the
\* holds, one stands for all
HeldInit == \E tim \in TimArgs, freq \in FreqArgs : TimerInit(tim, freq, "cbA")

\* the steps of Next, with the holds recorded
NextHeld ==
    \/ HeldInit /\ NoHist
    \/ DoSetAbsolute /\ NoHist
    \/ HeldSetPeriodic /\ UNCHANGED <<armedBy, call>>
    \/ DoClear /\ NoHist
    \/ HeldStart /\ UNCHANGED <<armedBy, call>>
    \/ DoStop /\ NoHist
    \/ DoIsr /\ NoHist
    \/ DoTick /\ NoHist

SpecHeld == Init /\ [][NextHeld]_vars

(***************************************************************************)
(* timer_read among the other calls                                        *)
(***************************************************************************)

\* timer_init with one callback
DoInitOne == \E tim \in TimArgs, freq \in FreqArgs : TimerInit(tim, freq, "cbA")

\* the steps of Next, and timer_read
NextRead ==
    \/ DoInitOne /\ NoHist
    \/ DoSetAbsolute /\ NoHist
    \/ DoSetPeriodic /\ NoHist
    \/ DoClear /\ NoHist
    \/ DoRead /\ NoHist
    \/ DoStart /\ NoHist
    \/ DoStop /\ NoHist
    \/ DoIsr /\ NoHist
    \/ DoTick /\ NoHist

SpecRead == Init /\ [][NextRead]_vars

(***************************************************************************)
(* A callback that arms its channel again                                  *)
(***************************************************************************)

\* timer_init with the callback that re-arms
DoInitRearm == \E tim \in TimArgs, freq \in FreqArgs : TimerInit(tim, freq, "cbRearm")

\* the steps of Next, of a program whose callback re-arms
NextRearm ==
    \/ DoInitRearm /\ NoHist
    \/ DoSetAbsolute /\ NoHist
    \/ DoSetPeriodic /\ NoHist
    \/ DoClear /\ NoHist
    \/ DoStart /\ NoHist
    \/ DoStop /\ NoHist
    \/ DoIsr /\ NoHist
    \/ DoTick /\ NoHist

SpecRearm == Init /\ [][NextRearm]_vars

(***************************************************************************)
(* Channel state                                                           *)
(***************************************************************************)

\* in machine m: the software armed bit of channel c of instance t, its
\* periodic bit, the enable bit of its interrupt source, its compare event
\* flag and its hardware reset-counter-on-match bit
ArmedIn(m, t, c) == BitTest(m.ctx[t].flags, c)

PeriodicIn(m, t, c) == BitTest(m.ctx[t].is_periodic, c)

IntEnabledIn(m, t, c) == BitTest(m.dev[t].INTEN, c)

PendingIn(m, t, c) == m.dev[t].EVENTS_COMPARE[c] = 1

ResetOnMatchIn(m, t, c) == BitTest(m.dev[t].SHORTS, c)

\* the same in the current state
Armed(t, c) == ArmedIn(Machine, t, c)

Periodic(t, c) == PeriodicIn(Machine, t, c)

IntEnabled(t, c) == IntEnabledIn(Machine, t, c)

Pending(t, c) == PendingIn(Machine, t, c)

ResetOnMatch(t, c) == ResetOnMatchIn(Machine, t, c)

\* the number of callbacks for channel c in the log f of a handler run
FiredCount(f, c) == Cardinality({i \in DOMAIN f : f[i][3] = c})

\* the machine is left as it was
SameMachine == UNCHANGED <<ctx, dev, nvic>>

(***************************************************************************)
(* The arming calls statement by statement                                 *)
(***************************************************************************)

\* the source lines of the statements of a function after its channel
\* check, in the order it executes them
Lines(fn) ==
    CASE fn = "timer_set_absolute" -> <<103, 104, 107, 111>>
      [] fn = "timer_set_periodic" -> <<124, 126, 127, 128, 129, 132, 137, 141, 144>>
      [] fn = "timer_clear" -> <<158, 160, 161, 162>>

\* the line after line l of fn; 0 after the last
LineAfter(fn, l) ==
    LET s == Lines(fn)
        i == CHOOSE j \in DOMAIN s : s[j] = l
    IN IF i = Len(s) THEN 0 ELSE s[i + 1]

\* the lines that update a bit set of ctx[]: the processor has no
\* instruction that modifies memory in place, |= and &= are a load into a
\* register, an operation on the register and a store
IsRmw(l) == l \in {103, 126, 127, 161, 162}

\* the load of the read-modify-write at the line of call k
LoadOf(m, k) ==
    IF k.line \in {103, 126, 161}
    THEN m.ctx[k.tim].flags
    ELSE m.ctx[k.tim].is_periodic

\* the store of the read-modify-write at the line of call k
StoreOf(m, k) ==
    CASE k.line \in {103, 126} ->
             [m EXCEPT !.ctx[k.tim].flags = BitSet(k.tmp, k.chan, UINT8_MOD)]
      [] k.line = 127 ->
             [m EXCEPT !.ctx[k.tim].is_periodic = BitSet(k.tmp, k.chan, UINT8_MOD)]
      [] k.line = 161 ->
             [m EXCEPT !.ctx[k.tim].flags = BitClr(k.tmp, k.chan)]
      [] k.line = 162 ->
             [m EXCEPT !.ctx[k.tim].is_periodic = BitClr(k.tmp, k.chan)]

\* the statement at the line of call k, for the lines that write a
\* register of the peripheral
StmtOf(m, k) ==
    CASE k.line \in {104, 128} -> WriteCC(m, k.tim, k.chan, k.value)
      [] k.line \in {107, 137} -> ClearEvent(m, k.tim, k.chan)
      [] k.line \in {111, 141} -> IntenSet(m, k.tim, k.chan)
      [] k.line = 124 -> TaskStop(m, k.tim)
      [] k.line = 129 ->
             IF HasFlag(k.flags, TIM_FLAG_RESET_ON_MATCH)
             THEN ShortsSet(m, k.tim, k.chan) ELSE m
      [] k.line = 132 ->
             IF HasFlag(k.flags, TIM_FLAG_RESET_ON_SET)
             THEN TaskClear(m, k.tim) ELSE m
      [] k.line = 144 ->
             IF ~HasFlag(k.flags, TIM_FLAG_SET_STOPPED)
             THEN TaskStart(m, k.tim) ELSE m
      [] k.line = 158 -> IntenClr(m, k.tim, k.chan)
      [] k.line = 160 -> ShortsClr(m, k.tim, k.chan)

\* a function is entered with a valid channel: its channel check passes
Enter(fn, tim, chan, value, flags) ==
    /\ call.fn = "none"
    /\ chan \in Chans(tim)
    /\ call' = [NoCall EXCEPT !.fn = fn, !.line = Lines(fn)[1],
                              !.tim = tim, !.chan = chan,
                              !.value = value, !.flags = flags,
                              !.stale = Pending(tim, chan) /\ ~Armed(tim, chan)]
    /\ fired' = <<>>
    /\ UNCHANGED <<ctx, dev, nvic, ret, oob>>

\* the call in progress executes its next instruction: the load of a
\* read-modify-write, or its store, or a whole statement; after its last
\* statement it returns 0
Advance ==
    IF IsRmw(call.line) /\ ~call.loaded
    THEN /\ call' = [call EXCEPT !.loaded = TRUE, !.tmp = LoadOf(Machine, call)]
         /\ fired' = <<>>
         /\ UNCHANGED <<ctx, dev, nvic, ret, oob>>
    ELSE LET m == IF IsRmw(call.line)
                  THEN StoreOf(Machine, call)
                  ELSE StmtOf(Machine, call)
             l == LineAfter(call.fn, call.line)
         IN IF l = 0
            THEN Returns(m, 0) /\ call' = NoCall
            ELSE /\ ctx' = m.ctx
                 /\ dev' = m.dev
                 /\ nvic' = m.nvic
                 /\ fired' = <<>>
                 /\ UNCHANGED <<ret, oob>>
                 /\ call' = [call EXCEPT
                                !.line = l,
                                !.loaded = FALSE,
                                !.stale = call.stale /\ call.line \notin {107, 137}]

EnterSetAbsolute ==
    \E tim \in Timers, chan \in ChanArgs, value \in Values :
        Enter("timer_set_absolute", tim, chan, value, 0)

\* the flags of the timer_set_periodic calls that run statement by
\* statement: none, both reset flags, and TIM_FLAG_SET_STOPPED
StepFlagArgs ==
    {0, TIM_FLAG_RESET_ON_SET + TIM_FLAG_RESET_ON_MATCH, TIM_FLAG_SET_STOPPED}

EnterSetPeriodic ==
    \E tim \in Timers, chan \in ChanArgs, value \in Values, flags \in StepFlagArgs :
        Enter("timer_set_periodic", tim, chan, value, flags)

EnterClear ==
    \E tim \in Timers, chan \in ChanArgs : Enter("timer_clear", tim, chan, 0, 0)

StepSetAbsolute == call.fn = "timer_set_absolute" /\ Advance

StepSetPeriodic == call.fn = "timer_set_periodic" /\ Advance

StepClear == call.fn = "timer_clear" /\ Advance

\* the handler runs as a whole: nothing of the program preempts it.  It
\* clears the event flag of the channel of the call in progress, delivers
\* the match of that channel if it calls it back, and disarms the other
\* one-shot channels it calls back
StepIsr ==
    \E num \in Timers :
        /\ Isr(num)
        /\ call' = IF call.fn # "none" /\ call.tim = num
                   THEN [call EXCEPT
                            !.stale = FALSE,
                            !.hit = call.hit /\ FiredCount(fired', call.chan) = 0,
                            !.disarmed = call.disarmed \cup
                                {b \in Chans(num) \ {call.chan} :
                                    Pending(num, b) /\ Armed(num, b)
                                        /\ ~Periodic(num, b)}]
                   ELSE call

\* the counter counts.  When it reaches the compare value of the channel
\* of the call in progress, the event flag of the channel is no longer
\* only the one set before the call; when that value is the one a
\* timer_set_absolute in progress has written, the match is one of the
\* new arm
StepTick ==
    \E t \in Timers :
        /\ Tick(t)
        /\ call' = IF /\ call.fn # "none"
                      /\ call.tim = t
                      /\ call.chan \in Matched(dev[t], (dev[t].counter + 1) % (MaxValue + 1))
                   THEN [call EXCEPT
                            !.stale = FALSE,
                            !.hit = \/ call.hit
                                    \/ /\ call.fn = "timer_set_absolute"
                                       /\ call.line \in {107, 111}]
                   ELSE call

\* timer_init, timer_start and timer_stop run as a whole between the calls
Idle == call.fn = "none" /\ UNCHANGED call

\* timer_init with the frequency that has prescaler 0
DoInitOk == \E tim \in Timers : TimerInit(tim, F_TIMER, "cbA")

\* the steps of a program that calls the driver from one thread, with the
\* handler and the counter running between any two instructions of
\* timer_set_absolute, timer_set_periodic and timer_clear
NextStep ==
    \/ DoInitOk /\ Idle /\ UNCHANGED <<armedBy, held>>
    \/ DoStart /\ Idle /\ UNCHANGED <<armedBy, held>>
    \/ DoStop /\ Idle /\ UNCHANGED <<armedBy, held>>
    \/ EnterSetAbsolute /\ UNCHANGED <<armedBy, held>>
    \/ EnterSetPeriodic /\ UNCHANGED <<armedBy, held>>
    \/ EnterClear /\ UNCHANGED <<armedBy, held>>
    \/ StepSetAbsolute /\ UNCHANGED <<armedBy, held>>
    \/ StepSetPeriodic /\ UNCHANGED <<armedBy, held>>
    \/ StepClear /\ UNCHANGED <<armedBy, held>>
    \/ StepIsr /\ UNCHANGED <<armedBy, held>>
    \/ StepTick /\ UNCHANGED <<armedBy, held>>

SpecStep == Init /\ [][NextStep]_vars

(***************************************************************************)
(* C1                                                                      *)
(***************************************************************************)

\* C1: when the handler is delivered a match event of a channel on which a
\* timer_set_absolute is outstanding, it calls the callback back exactly
\* once for that channel and leaves the channel idle with its interrupt
\* source disabled; a match event of a channel with no outstanding arm
\* (never armed, cleared, or its one-shot consumed) calls nothing back.
C1_OneShotFiresOnce ==
    [][\A t \in Timers : \A c \in Chans(t) :
          (Isr(t) /\ Pending(t, c)) =>
              /\ armedBy[t][c] = "absolute" =>
                     /\ FiredCount(fired', c) = 1
                     /\ ~Armed(t, c)'
                     /\ ~IntEnabled(t, c)'
              /\ armedBy[t][c] = "none" => FiredCount(fired', c) = 0]_vars

(***************************************************************************)
(* C2                                                                      *)
(***************************************************************************)

\* what the calls do to a channel: timer_set_periodic with
\* TIM_FLAG_RESET_ON_MATCH leaves it armed and periodic with its
\* reset-on-match bit set and its interrupt source enabled; a handler
\* invocation calls an armed periodic channel back once if its event is
\* pending and not at all otherwise, and leaves it armed and periodic
C2_Calls ==
    \A t \in Timers : \A c \in Chans(t) :
        /\ \A v \in Values, f \in FlagArgs :
               HasFlag(f, TIM_FLAG_RESET_ON_MATCH) =>
                   LET r == timer_set_periodic(Machine, t, c, v, f)
                   IN /\ r.ret = 0
                      /\ ArmedIn(r.m, t, c) /\ PeriodicIn(r.m, t, c)
                      /\ ResetOnMatchIn(r.m, t, c) /\ IntEnabledIn(r.m, t, c)
        /\ (Armed(t, c) /\ Periodic(t, c) /\ IrqPending(Machine, t)) =>
               LET s == irq_handler(Machine, t)
               IN /\ FiredCount(s.fired, c) = IF Pending(t, c) THEN 1 ELSE 0
                  /\ ArmedIn(s.m, t, c) /\ PeriodicIn(s.m, t, c)

\* C2: after timer_set_periodic with TIM_FLAG_RESET_ON_MATCH the channel
\* is armed and periodic; every handler invocation calls it back once per
\* pending match event and leaves it armed and periodic; and no step other
\* than timer_clear on the channel ends this.
C2_PeriodicUntilClear ==
    /\ []C2_Calls
    /\ [][\A t \in Timers : \A c \in Chans(t) :
              (Armed(t, c) /\ Periodic(t, c) /\ ~(Armed(t, c)' /\ Periodic(t, c)')) =>
                  TimerClear(t, c)]_vars

\* a handler invocation has called back a channel armed with reset on
\* match, and the channel is still armed and periodic
C2_Witness ==
    \E c \in Chans(0) :
        /\ FiredCount(fired, c) = 1
        /\ Armed(0, c) /\ Periodic(0, c) /\ ResetOnMatch(0, c)

(***************************************************************************)
(* C3                                                                      *)
(***************************************************************************)

\* what the calls do to a channel: timer_clear returns success and leaves
\* it idle with its interrupt source disabled, and changes nothing when it
\* was idle; a handler invocation calls no callback for an idle channel,
\* clears its event flag and leaves it idle
C3_Calls ==
    \A t \in Timers : \A c \in Chans(t) :
        /\ LET r == timer_clear(Machine, t, c)
           IN /\ r.ret = 0
              /\ ~ArmedIn(r.m, t, c) /\ ~PeriodicIn(r.m, t, c)
              /\ ~IntEnabledIn(r.m, t, c)
              /\ ~Armed(t, c) => r.m = Machine
        /\ (~Armed(t, c) /\ IrqPending(Machine, t)) =>
               LET s == irq_handler(Machine, t)
               IN /\ FiredCount(s.fired, c) = 0
                  /\ ~PendingIn(s.m, t, c)
                  /\ ~ArmedIn(s.m, t, c)

\* C3: timer_clear on an idle channel succeeds and changes nothing;
\* timer_clear on an armed channel makes it idle; the handler calls no
\* callback for an idle channel and only clears its event flag; and an
\* idle channel becomes armed only by timer_set_absolute or
\* timer_set_periodic on it (the value such a call was given is the one
\* the channel's compare register holds after it).
C3_ClearSuppressesCallbacks ==
    /\ []C3_Calls
    /\ [][\A t \in Timers : \A c \in Chans(t) :
              (~Armed(t, c) /\ Armed(t, c)') =>
                  \/ TimerSetAbsolute(t, c, dev'[t].CC[c])
                  \/ \E f \in FlagArgs : TimerSetPeriodic(t, c, dev'[t].CC[c], f)]_vars

\* the handler is about to observe a stale event: channel 0 is idle with
\* its interrupt source disabled and its event flag set, and the interrupt
\* is raised by channel 1
C3_Witness ==
    /\ ~Armed(0, 0) /\ ~IntEnabled(0, 0) /\ Pending(0, 0)
    /\ dev[0].CC[0] # 0
    /\ Armed(0, 1) /\ Pending(0, 1)
    /\ IrqPending(Machine, 0)

(***************************************************************************)
(* C4                                                                      *)
(***************************************************************************)

\* C4: whatever state the channel was in, right after a successful
\* timer_set_absolute the channel is armed and not periodic.
C4_SetAbsoluteArmsOneShot ==
    [][\A t \in Timers : \A c \in Chans(t), v \in Values :
          TimerSetAbsolute(t, c, v) =>
              (ret' = 0 /\ Armed(t, c)' /\ ~Periodic(t, c)')]_vars

(***************************************************************************)
(* C5                                                                      *)
(***************************************************************************)

\* C5: after a successful timer_init the stored callback and argument are
\* the new ones and every channel of the instance is idle.
C5_InitResetsChannels ==
    [][\A t \in Timers, freq \in FreqArgs, cb \in Callbacks :
          (TimerInit(t, freq, cb) /\ ret' = 0) =>
              /\ ctx'[t].cb = cb
              /\ ctx'[t].arg = ArgOf(cb)
              /\ \A c \in Chans(t) : ~Armed(t, c)' /\ ~Periodic(t, c)']_vars

(***************************************************************************)
(* C6                                                                      *)
(***************************************************************************)

\* the instance index or the channel index is out of range
BadIndex(tim, chan) == tim \notin Timers \/ chan \notin Chans(tim)

\* C6: timer_init with an instance index out of range, and
\* timer_set_absolute, timer_set_periodic and timer_clear with an instance
\* or channel index out of range, return -1 and leave the registers and
\* the context memory as they were.
C6_BadIndexRejected ==
    [][/\ \A tim \in TimArgs \ Timers, freq \in FreqArgs, cb \in Callbacks :
              TimerInit(tim, freq, cb) => (ret' = -1 /\ SameMachine)
       /\ \A tim \in TimArgs, chan \in ChanArgs :
              BadIndex(tim, chan) =>
                  /\ TimerSetAbsolute(tim, chan, 0) => (ret' = -1 /\ SameMachine)
                  /\ TimerSetPeriodic(tim, chan, 0, 0) => (ret' = -1 /\ SameMachine)
                  /\ TimerClear(tim, chan) => (ret' = -1 /\ SameMachine)]_vars

(***************************************************************************)
(* C7                                                                      *)
(***************************************************************************)

\* C7: timer_init with frequency 16000000 / 2^e, e in 0..9, succeeds and
\* programs prescaler e; with any other frequency it returns -1, leaves
\* the prescaler as it was and the timer stopped.
C7_FrequencyResolution ==
    [][\A freq \in FreqInputs, cb \in Callbacks :
          TimerInit(0, freq, cb) =>
              IF \E e \in 0 .. 9 : freq = 16000000 \div Pow2(e)
              THEN /\ ret' = 0
                   /\ dev'[0].PRESCALER \in 0 .. 9
                   /\ freq = 16000000 \div Pow2(dev'[0].PRESCALER)
              ELSE /\ ret' = -1
                   /\ dev'[0].PRESCALER = dev[0].PRESCALER
                   /\ ~dev'[0].running]_vars

\* an init with 16000000 / 2^9 has programmed prescaler 9, and a later
\* init with a frequency that has no prescaler has failed and left it
C7_Witness ==
    /\ dev[0].PRESCALER = 9
    /\ ret = -1
    /\ ~dev[0].running
    /\ nvic[0]

(***************************************************************************)
(* C8                                                                      *)
(***************************************************************************)

\* C8 as stated: timer_set_periodic returns with the timer stopped if
\* TIM_FLAG_SET_STOPPED is given and running otherwise, and once a
\* timer_set_periodic with TIM_FLAG_SET_STOPPED has returned, no callback
\* of the instance is called until timer_start is called.
C8_NoCallbackUntilStart ==
    [][\A t \in Timers :
          /\ \A c \in Chans(t), v \in Values, f \in FlagArgs :
                 TimerSetPeriodic(t, c, v, f) =>
                     dev'[t].running = ~HasFlag(f, TIM_FLAG_SET_STOPPED)
          /\ (held[t] /\ Isr(t)) => fired' = <<>>]_vars

\* what the calls do: timer_set_periodic returns with the timer stopped if
\* TIM_FLAG_SET_STOPPED is given and running otherwise, and with the
\* channel's event flag clear; the handler calls no callback for a channel
\* whose event flag is clear
C8_Calls ==
    \A t \in Timers : \A c \in Chans(t) :
        /\ \A v \in Values, f \in FlagArgs :
               LET r == timer_set_periodic(Machine, t, c, v, f)
               IN /\ r.m.dev[t].running = ~HasFlag(f, TIM_FLAG_SET_STOPPED)
                  /\ ~PendingIn(r.m, t, c)
        /\ (~Pending(t, c) /\ IrqPending(Machine, t)) =>
               FiredCount(irq_handler(Machine, t).fired, c) = 0

\* C8 as amended: timer_set_periodic returns with the timer stopped if
\* TIM_FLAG_SET_STOPPED is given and running otherwise, and with the
\* channel's event flag clear; while the timer stays stopped a clear event
\* flag stays clear, and the handler calls no callback for a channel whose
\* flag is clear; and a stopped timer is started only by timer_start,
\* timer_init or a timer_set_periodic without TIM_FLAG_SET_STOPPED (the
\* value such a call was given is the one the channel's compare register
\* holds after it).
C8_StoppedChannelStaysQuiet ==
    /\ []C8_Calls
    /\ [][\A t \in Timers :
              /\ \A c \in Chans(t) :
                     (~dev[t].running /\ ~dev'[t].running /\ ~Pending(t, c)) =>
                         ~Pending(t, c)'
              /\ (~dev[t].running /\ dev'[t].running) =>
                     \/ TimerStart(t)
                     \/ \E freq \in FreqArgs, cb \in Callbacks : TimerInit(t, freq, cb)
                     \/ \E c \in Chans(t), f \in FlagArgs :
                            /\ ~HasFlag(f, TIM_FLAG_SET_STOPPED)
                            /\ TimerSetPeriodic(t, c, dev'[t].CC[c], f)]_vars

\* a timer_set_periodic with TIM_FLAG_SET_STOPPED has left an initialised
\* instance stopped with channel 1 armed and periodic, its event flag
\* clear and its counter about to match
C8_Witness ==
    /\ held[0]
    /\ ~dev[0].running
    /\ nvic[0]
    /\ Armed(0, 1) /\ Periodic(0, 1) /\ IntEnabled(0, 1)
    /\ ~Pending(0, 1)

(***************************************************************************)
(* C9                                                                      *)
(***************************************************************************)

\* the callbacks due at the entry of the handler: one for every armed
\* channel with a pending event, from channel i upwards, lowest first
RECURSIVE DueFrom(_, _)
DueFrom(t, i) ==
    IF i >= timer_config[t].channels THEN <<>>
    ELSE (IF Pending(t, i) /\ Armed(t, i)
          THEN << <<ctx[t].cb, ctx[t].arg, i>> >>
          ELSE <<>>) \o DueFrom(t, i + 1)

\* C9: one handler invocation calls back every armed channel that has an
\* event pending at entry exactly once, in increasing channel order, and
\* no other channel.
C9_DispatchInIndexOrder ==
    [][\A t \in Timers : Isr(t) => fired' = DueFrom(t, 0)]_vars

\* a handler invocation has called back channel 0 and then channel 1
C9_Witness ==
    /\ Len(fired) = 2
    /\ fired[1][3] = 0
    /\ fired[2][3] = 1

(***************************************************************************)
(* C10                                                                     *)
(***************************************************************************)

\* C10: between complete calls and handler invocations, a channel's
\* periodic bit is set only if its armed bit is set.
C10_PeriodicOnlyIfArmed ==
    \A t \in Timers : \A c \in Chans(t) : Periodic(t, c) => Armed(t, c)

\* the three channel states side by side after a handler invocation:
\* channel 0 idle after its one-shot fired, channel 1 armed and periodic
C10_Witness ==
    /\ fired # <<>>
    /\ fired[1][3] = 0
    /\ ~Armed(0, 0) /\ ~Periodic(0, 0)
    /\ Armed(0, 1) /\ Periodic(0, 1)

(***************************************************************************)
(* C11                                                                     *)
(***************************************************************************)

\* C11: a handler invocation that preempts a timer_set_absolute or
\* timer_set_periodic never calls back the channel being armed for an
\* event that was latched while the channel was idle, before the call was
\* entered, and so never disarms the new arm for it.
C11_StaleEventNotDelivered ==
    [][\A num \in Timers :
          (/\ Isr(num)
           /\ call.fn \in {"timer_set_absolute", "timer_set_periodic"}
           /\ call.tim = num
           /\ call.stale) =>
              /\ FiredCount(fired', call.chan) = 0
              /\ Armed(num, call.chan) => Armed(num, call.chan)']_vars

(***************************************************************************)
(* C12                                                                     *)
(***************************************************************************)

\* the armed and periodic bits of channel c are in a combination that is
\* none of idle, armed-one-shot and armed-periodic: periodic without
\* armed, or armed by the timer_set_periodic in progress without periodic
Inconsistent(t, c) ==
    \/ Periodic(t, c) /\ ~Armed(t, c)
    \/ /\ call.fn = "timer_set_periodic"
       /\ call.tim = t /\ call.chan = c
       /\ call.line = 127
       /\ Armed(t, c) /\ ~Periodic(t, c)

\* C12: a handler invocation that preempts a timer_clear or
\* timer_set_periodic and reads the bits of the channel of that call (its
\* event flag is set) never finds them in an inconsistent combination.
C12_HandlerSeesConsistentBits ==
    [][\A num \in Timers :
          (/\ Isr(num)
           /\ call.fn \in {"timer_clear", "timer_set_periodic"}
           /\ call.tim = num
           /\ Pending(num, call.chan)) =>
              ~Inconsistent(num, call.chan)]_vars

(***************************************************************************)
(* C13                                                                     *)
(***************************************************************************)

\* C13: a handler invocation sets no armed bit and changes no periodic
\* bit; it clears the armed bit of a channel only if the channel had an
\* event pending, was armed and was not periodic; and it leaves the armed
\* bit of a channel without a pending event as it was.
C13_HandlerOnlyDisarmsOneShots ==
    [][\A t \in Timers :
          Isr(t) =>
              \A c \in Chans(t) :
                  /\ Periodic(t, c)' = Periodic(t, c)
                  /\ Armed(t, c)' => Armed(t, c)
                  /\ (Armed(t, c) /\ ~Armed(t, c)') =>
                         (Pending(t, c) /\ ~Periodic(t, c))
                  /\ ~Pending(t, c) => (Armed(t, c)' = Armed(t, c))]_vars

\* a handler invocation has called back and disarmed the one-shot channel
\* 1 and left the one-shot channel 0, which had no event, armed
C13_Witness ==
    /\ Len(fired) = 1
    /\ fired[1][3] = 1
    /\ ~Armed(0, 1) /\ ~IntEnabled(0, 1)
    /\ Armed(0, 0) /\ ~Periodic(0, 0) /\ IntEnabled(0, 0)

(***************************************************************************)
(* C14                                                                     *)
(***************************************************************************)

\* C14: timer_init of a valid instance with a frequency that is not
\* 16000000 / 2^e, e in 0..9, returns -1, leaves the NVIC enable bits as
\* they were and the timer stopped; with one of these frequencies it
\* returns 0 with the counter at zero, the interrupt line enabled and the
\* timer running.
C14_InitFailsBeforeEnable ==
    [][\A freq \in FreqInputs, cb \in Callbacks :
          TimerInit(0, freq, cb) =>
              IF \E e \in 0 .. 9 : freq = 16000000 \div Pow2(e)
              THEN /\ ret' = 0
                   /\ dev'[0].counter = 0
                   /\ nvic'[0]
                   /\ dev'[0].running
              ELSE /\ ret' = -1
                   /\ nvic' = nvic
                   /\ ~dev'[0].running]_vars

\* the first timer_init of the instance has failed: the callback is
\* stored, the interrupt line is not enabled and the timer is stopped
C14_Witness ==
    /\ ret = -1
    /\ ctx[0].cb # "NULL"
    /\ ~nvic[0]
    /\ ~dev[0].running

(***************************************************************************)
(* C15                                                                     *)
(***************************************************************************)

\* the capture channel of instance t
ReadChan(t) == timer_config[t].channels

\* what the calls do with the capture channel: timer_set_absolute,
\* timer_set_periodic and timer_clear reject its index and change nothing;
\* a handler invocation calls nothing back with its index and leaves its
\* compare register and event flag as they were
C15_Calls ==
    \A t \in Timers :
        /\ \A v \in Values :
               timer_set_absolute(Machine, t, ReadChan(t), v) = Result(Machine, -1)
        /\ \A v \in Values, f \in FlagArgs :
               timer_set_periodic(Machine, t, ReadChan(t), v, f) = Result(Machine, -1)
        /\ timer_clear(Machine, t, ReadChan(t)) = Result(Machine, -1)
        /\ IrqPending(Machine, t) =>
               LET s == irq_handler(Machine, t)
               IN /\ FiredCount(s.fired, ReadChan(t)) = 0
                  /\ s.m.dev[t].CC[ReadChan(t)] = dev[t].CC[ReadChan(t)]
                  /\ s.m.dev[t].EVENTS_COMPARE[ReadChan(t)] =
                         dev[t].EVENTS_COMPARE[ReadChan(t)]

\* C15: timer_read returns the counter and changes nothing but the compare
\* register of the capture channel, whose index is the channel count; the
\* arming calls reject that index and the handler never scans it.
C15_ReadTouchesOnlyCaptureChannel ==
    /\ []C15_Calls
    /\ [][\A t \in Timers :
              TimerRead(t) =>
                  /\ ret' = dev[t].counter
                  /\ ctx' = ctx
                  /\ nvic' = nvic
                  /\ dev' = [dev EXCEPT ![t].CC[ReadChan(t)] = dev[t].counter]]_vars

\* timer_read has returned a count other than zero while channel 0 is
\* armed with a compare target other than that count and channel 1 is
\* armed and periodic
C15_Witness ==
    /\ ret = dev[0].CC[ReadChan(0)]
    /\ ret # 0
    /\ dev[0].CC[0] # ret
    /\ Armed(0, 0) /\ IntEnabled(0, 0)
    /\ Armed(0, 1) /\ Periodic(0, 1)
    /\ dev[0].running

(***************************************************************************)
(* C16                                                                     *)
(***************************************************************************)

\* C16: a match of the counter with the compare value a timer_set_absolute
\* has written is not lost: from the match until the channel is called
\* back for it, the event flag of the channel stays set.
C16_NoMatchLost ==
    (call.fn = "timer_set_absolute" /\ call.hit) => Pending(call.tim, call.chan)

(***************************************************************************)
(* C17                                                                     *)
(***************************************************************************)

\* C17: a channel the handler has disarmed while a timer_set_absolute,
\* timer_set_periodic or timer_clear on another channel was in progress
\* stays unarmed while that call runs to its end.
C17_DisarmNotUndone ==
    \A b \in call.disarmed : ~Armed(call.tim, b)

(***************************************************************************)
(* C18                                                                     *)
(***************************************************************************)

\* an armed channel whose event is pending and raises the interrupt is
\* called back by the handler
C18_Calls ==
    \A t \in Timers : \A c \in Chans(t) :
        (Armed(t, c) /\ IntEnabled(t, c) /\ Pending(t, c) /\ nvic[t]) =>
            /\ IrqPending(Machine, t)
            /\ FiredCount(irq_handler(Machine, t).fired, c) = 1

\* C18: when the handler calls back a one-shot channel and the callback
\* arms that channel again with timer_set_absolute, the handler returns
\* with the channel called back once, armed, its interrupt source enabled
\* and its event flag clear, so that its next match calls it back again.
C18_RearmInCallbackSurvives ==
    /\ []C18_Calls
    /\ [][\A t \in Timers : \A c \in Chans(t) :
              (/\ Isr(t)
               /\ ctx[t].cb = "cbRearm"
               /\ Pending(t, c) /\ Armed(t, c) /\ ~Periodic(t, c)) =>
                  /\ FiredCount(fired', c) = 1
                  /\ Armed(t, c)' /\ ~Periodic(t, c)'
                  /\ IntEnabled(t, c)'
                  /\ ~Pending(t, c)']_vars

\* the handler has called back the one-shot channel 1, whose callback
\* armed it again: it is armed, one-shot, with its interrupt source enabled
C18_Witness ==
    /\ ctx[0].cb = "cbRearm"
    /\ Len(fired) = 1
    /\ fired[1][1] = "cbRearm"
    /\ fired[1][3] = 1
    /\ Armed(0, 1) /\ ~Periodic(0, 1) /\ IntEnabled(0, 1)
    /\ dev[0].running

(***************************************************************************)
(* C19                                                                     *)
(***************************************************************************)

\* C19: between complete calls and handler invocations, the interrupt
\* source of a channel is enabled if and only if its armed bit is set.
C19_IntEnabledIffArmed ==
    \A t \in Timers : \A c \in Chans(t) : IntEnabled(t, c) <=> Armed(t, c)

\* a handler invocation has disarmed the one-shot channel 0 and disabled
\* its interrupt source, next to the armed periodic channel 1 whose source
\* stays enabled
C19_Witness ==
    /\ Len(fired) = 1
    /\ fired[1][3] = 0
    /\ ~Armed(0, 0) /\ ~IntEnabled(0, 0)
    /\ Armed(0, 1) /\ Periodic(0, 1) /\ IntEnabled(0, 1)

(***************************************************************************)
(* C20                                                                     *)
(***************************************************************************)

\* C20: after a successful timer_set_periodic the reset-on-match bit of the
\* channel is set if and only if TIM_FLAG_RESET_ON_MATCH was given, and
\* after a successful timer_set_absolute it is clear.
C20_ShortsFollowLastArm ==
    [][\A t \in Timers : \A c \in Chans(t), v \in Values :
          /\ TimerSetAbsolute(t, c, v) => ~ResetOnMatch(t, c)'
          /\ \A f \in FlagArgs :
                 TimerSetPeriodic(t, c, v, f) =>
                     (ResetOnMatch(t, c)' <=> HasFlag(f, TIM_FLAG_RESET_ON_MATCH))]_vars

====
